---- MODULE Spec2Model ----
(***************************************************************************)
(* Model of the live guitar tuner of src/tuner.py: the LiveTuner engine    *)
(* (audio_callback, start, stop, poll), the GUI toggle that drives it, and *)
(* the pure helpers freq_to_string and detect_frequency_autocorr.          *)
(*                                                                         *)
(* Units.  Samples are integers in 1/100 of full scale (0.02 is 2).        *)
(* Frequencies are integers in 1/100 Hz (82.41 Hz is 8241); np.mean and    *)
(* fs / peak round down to that grid.  A block is a sequence of samples.   *)
(* The engine is built with a sample rate (fs, 400 Hz instead of the       *)
(* default 44100) small enough that a four-sample block (instead of 5292   *)
(* samples) resolves to more than one row of the note table.               *)
(***************************************************************************)
EXTENDS Integers, Sequences, FiniteSets, TLC

VARIABLES
    q,              \* self.q: FIFO of pushed blocks
    stream,         \* self.stream: "none", "created", "active" or "closed"
    running,        \* self.running
    last_note,      \* self.last_note
    note_counter,   \* self.note_counter
    zi,             \* self.zi: the filter's continuity state
    freq_history,   \* self.freq_history
    status_text,    \* the Tk StringVar status_text
    pending,        \* number of poll callbacks scheduled with root.after
    pc,             \* position of the poll handler: "idle", "drain" or "done"
    last,           \* poll's local `last`
    taken,          \* how many blocks the running poll has taken out of q
    newest,         \* the block it took out last
    outcome,        \* how the poll that is about to return ended
    zi_used,        \* the zi argument of poll's stateful sosfilt call
    freq,           \* poll's local `freq`
    freq_smooth,    \* poll's local `freq_smooth`
    string,         \* poll's local `string`
    emitted,        \* whether poll set the status text and drew the gauge
    first_block,    \* no block has gone through the filter since the session began
    session_est,    \* the last HistoryLen + 1 positive estimates of the session
    lastOp,         \* the last call on the GUI thread: "stop", "start", "restart"
                    \* (a start() right after a stop()) or "other"
    call,           \* the lifecycle call the latest step made, if it made one:
                    \* "stop", "start_noop" (start() on a running engine) or, for
                    \* start() on a stopped engine, what the audio library did;
                    \* "none" after every other step
    dropped,        \* how many blocks that call, a stop(), removed from the queue
    q_stale,        \* how many blocks at the head of q were pushed before the
                    \* latest stop()
    last_stale,     \* poll's `last` is such a block
    fn_arg,         \* argument of the pure function applied by SpecDetect, SpecNote
    fn_res          \* its result

engine == <<zi, freq_history, last_note, note_counter>>
locals == <<outcome, zi_used, freq, freq_smooth, string, emitted>>
pure == <<fn_arg, fn_res>>
ghosts == <<call, dropped, q_stale, last_stale>>
vars == <<q, stream, running, last_note, note_counter, zi, freq_history,
          status_text, pending, pc, last, taken, newest, outcome, zi_used,
          freq, freq_smooth, string, emitted, first_block, session_est, lastOp,
          call, dropped, q_stale, last_stale, fn_arg, fn_res>>

(***************************************************************************)
(* Bounds of the model.  MaxQueue bounds the blocks waiting in the queue;  *)
(* a poll can still take out MaxQueue + 1 blocks, the last of them pushed  *)
(* while it was draining.  MaxCount caps note_counter, which the code lets *)
(* grow without limit: a running session that reached it polls no more.    *)
(* MaxPending bounds the scheduled poll callbacks.                         *)
(* fs is the sample rate the engine is built with, in 1/100 Hz, and        *)
(* BlockLen the length of the blocks SpecDetect feeds the estimator.       *)
(***************************************************************************)
MaxQueue == 1
MaxCount == 4
MaxPending == 2
fs == 40000
BlockLen == 4

(***************************************************************************)
(* Values standing for Python's None and for a local that was not assigned.*)
(***************************************************************************)
None == "None"
NoBlock == << >>
NoValue == 0 - 1

(***************************************************************************)
(* Program constants.                                                      *)
(***************************************************************************)
SilenceThreshold == 2
note_confirm_threshold == 3
HistoryLen == 5

StringNames == <<"Low E", "A", "D", "G", "B", "High E">>
STRINGS == [n \in {"Low E", "A", "D", "G", "B", "High E"} |->
              CASE n = "Low E" -> 8241
                [] n = "A" -> 11000
                [] n = "D" -> 14683
                [] n = "G" -> 19600
                [] n = "B" -> 24694
                [] n = "High E" -> 32963]

(***************************************************************************)
(* Arithmetic helpers.                                                     *)
(***************************************************************************)
Abs(v) == IF v < 0 THEN 0 - v ELSE v

RECURSIVE SumSeq(_)
SumSeq(s) == IF s = << >> THEN 0 ELSE Head(s) + SumSeq(Tail(s))

RECURSIVE MaxSeq(_)
MaxSeq(s) == IF Len(s) = 1 THEN s[1]
             ELSE LET m == MaxSeq(Tail(s)) IN IF s[1] >= m THEN s[1] ELSE m

np_mean(s) == SumSeq(s) \div Len(s)

(***************************************************************************)
(* freq_to_string: min() over the dict keeps the first key with the        *)
(* smallest value, in insertion order.                                     *)
(***************************************************************************)
diffs(f) == [i \in 1..Len(StringNames) |-> Abs(f - STRINGS[StringNames[i]])]

RECURSIVE MinKey(_, _, _)
MinKey(d, i, best) ==
    IF i > Len(d) THEN best
    ELSE MinKey(d, i + 1, IF d[i] < d[best] THEN i ELSE best)

RECURSIVE MinKeyLast(_, _, _)
MinKeyLast(d, i, best) ==
    IF i > Len(d) THEN best
    ELSE MinKeyLast(d, i + 1, IF d[i] <= d[best] THEN i ELSE best)

freq_to_string_last(f) == StringNames[MinKeyLast(diffs(f), 2, 1)]

freq_to_string(f) == StringNames[MinKey(diffs(f), 2, 1)]

(***************************************************************************)
(* detect_frequency_autocorr.  x - mean(x) is kept integral by scaling it  *)
(* by len(x); the scaling multiplies every autocorrelation value by the    *)
(* same positive factor, so signs of differences and the argmax are those  *)
(* of the code.  Index k of Correlate is lag k - 1.  The result is a       *)
(* record: raised says the call ended in IndexError, value is what it      *)
(* returned otherwise.                                                     *)
(***************************************************************************)
RECURSIVE CenterAcc(_, _, _, _)
CenterAcc(x, n, total, out) ==
    IF x = << >> THEN out
    ELSE CenterAcc(Tail(x), n, total, Append(out, n * Head(x) - total))

\* x - np.mean(x), times len(x)
Centered(x) == CenterAcc(x, Len(x), SumSeq(x), << >>)

RECURSIVE DotLag(_, _, _, _)
DotLag(y, lag, i, acc) ==
    IF i + lag > Len(y) THEN acc
    ELSE DotLag(y, lag, i + 1, acc + y[i] * y[i + lag])

RECURSIVE CorrAcc(_, _, _)
CorrAcc(y, lag, out) ==
    IF lag >= Len(y) THEN out
    ELSE CorrAcc(y, lag + 1, Append(out, DotLag(y, lag, 1, 0)))

\* np.correlate(x, x, mode='full')[len(corr)//2:]: lags 0 .. len(x) - 1
Correlate(y) == CorrAcc(y, 0, << >>)

RECURSIVE DiffAcc(_, _, _)
DiffAcc(c, i, out) ==
    IF i >= Len(c) THEN out
    ELSE DiffAcc(c, i + 1, Append(out, c[i + 1] - c[i]))

\* np.diff(corr)
Diff(c) == DiffAcc(c, 1, << >>)

Autocorr(x) == Correlate(Centered(x))

\* np.where(d > 0)[0], as lags: the lags whose first difference is positive
Rising(d) == {k \in 0..(Len(d) - 1) : d[k + 1] > 0}

\* np.argmax(corr[start:]) + start: the first lag at or after start holding
\* the maximum of corr[start:]
ArgmaxFrom(corr, start) ==
    LET m == MaxSeq(SubSeq(corr, start + 1, Len(corr)))
    IN  CHOOSE k \in start..(Len(corr) - 1) :
            /\ corr[k + 1] = m
            /\ \A j \in start..(Len(corr) - 1) : corr[j + 1] = m => k <= j

Returned(v) == [raised |-> FALSE, value |-> v]
Raised == [raised |-> TRUE, value |-> NoValue]

DetectFrom(corr, rising, rate, empty) ==
    IF rising = {} THEN empty
    ELSE LET start == CHOOSE k \in rising : \A j \in rising : k <= j
             peak == ArgmaxFrom(corr, start)
         IN  IF peak = 0 THEN Returned(0) ELSE Returned(rate \div peak)

detect_frequency_autocorr_zero(x, rate) ==
    LET corr == Autocorr(x)
    IN  DetectFrom(corr, Rising(Diff(corr)), rate, Returned(0))

detect_frequency_autocorr(x, rate) ==
    LET corr == Autocorr(x)
    IN  DetectFrom(corr, Rising(Diff(corr)), rate, Raised)

(***************************************************************************)
(* The bandpass filter.  make_bandpass_sos designs the sections once, in   *)
(* the constructor; the model's filter is one second-order section with a  *)
(* zero at DC and one at Nyquist (numerator 1, 0, -1; denominator 1, 0, 0).*)
(* sosfilt runs the section in transposed direct form II, as scipy does,   *)
(* from the state it is given and returns the output and the final state.  *)
(* sosfilt_zi is the state of the steady response to a unit step.          *)
(***************************************************************************)
sos == [b |-> <<1, 0, 0 - 1>>, a |-> <<1, 0, 0>>]

ZeroState == <<0, 0>>

sosfilt_zi(s) ==
    LET gain == (s.b[1] + s.b[2] + s.b[3]) \div (s.a[1] + s.a[2] + s.a[3])
    IN  <<gain - s.b[1], s.b[3] - s.a[3] * gain>>

RECURSIVE SosRun(_, _, _, _)
SosRun(s, x, z, out) ==
    IF x = << >> THEN [y |-> out, zf |-> z]
    ELSE LET y == s.b[1] * Head(x) + z[1]
         IN  SosRun(s, Tail(x),
                    <<s.b[2] * Head(x) - s.a[2] * y + z[2],
                      s.b[3] * Head(x) - s.a[3] * y>>,
                    Append(out, y))

sosfilt(s, x, z) == SosRun(s, x, z, << >>)

Scale(z, c) == <<z[1] * c, z[2] * c>>

\* line 174: the state handed to sosfilt is self.zi * arr[0]
FilterInit(state, arr) == Scale(state, arr[1])

(***************************************************************************)
(* The amplitude gate and the normalisation of poll.                       *)
(***************************************************************************)
PeakAbs(arr) == MaxSeq([i \in 1..Len(arr) |-> Abs(arr[i])])

IsSilentLoose(arr) == PeakAbs(arr) < SilenceThreshold - 1

IsSilent(arr) == PeakAbs(arr) < SilenceThreshold

\* arr / peak, then arr *= 2.0
Normalise(arr) == [i \in 1..Len(arr) |-> (2 * arr[i]) \div PeakAbs(arr)]

(***************************************************************************)
(* The frequency tracker of poll (lines 197-205).                          *)
(***************************************************************************)
Positive(h) == SelectSeq(h, LAMBDA f : f > 0)

TrackerUpdateNoEvict(f, h) ==
    IF f > 0
    THEN LET kept == Positive(Append(h, f))
         IN  [history |-> kept, smooth |-> np_mean(kept)]
    ELSE [history |-> h, smooth |-> 0]

TrackerUpdate(f, h) ==
    IF f > 0
    THEN LET kept == Positive(Append(h, f))
             trimmed == IF Len(kept) > HistoryLen THEN Tail(kept) ELSE kept
         IN  [history |-> trimmed, smooth |-> np_mean(trimmed)]
    ELSE [history |-> h, smooth |-> 0]

(***************************************************************************)
(* The stability check of poll (lines 210-216).                            *)
(***************************************************************************)
StabilityStepKeep(name, note, count) ==
    [note |-> name, count |-> count + 1]

StabilityStep(name, note, count) ==
    IF name = note THEN [note |-> note, count |-> count + 1]
    ELSE [note |-> name, count |-> 1]

Confirmed(count) == count >= note_confirm_threshold

(***************************************************************************)
(* The blocks the audio source delivers in the model: a silent block       *)
(* (peak 0.01), a block whose peak is exactly the threshold, a constant    *)
(* loud block (no pitch), a loud alternating block and a loud two-step     *)
(* block, whose output is constant when it is filtered from a zero state.  *)
(***************************************************************************)
Blocks == { <<1, 0, 0 - 1, 0>>,
            <<2, 0, 0 - 2, 0>>,
            <<50, 50, 50, 50>>,
            <<50, 0 - 50, 50, 0 - 50>>,
            <<25, 25, 50, 50>> }

\* What status_text shows: the initial "No signal", "Mic stopped", or a
\* reading, of which the model keeps the note name
NoReading == [text |-> "No signal", string |-> None]
MicStopped == [text |-> "Mic stopped", string |-> None]
Reading(name) == [text |-> "reading", string |-> name]

LastN(s, n) == IF Len(s) > n THEN SubSeq(s, Len(s) - n + 1, Len(s)) ELSE s

BlankLocals ==
    /\ outcome' = "none"
    /\ zi_used' = << >>
    /\ freq' = NoValue
    /\ freq_smooth' = NoValue
    /\ string' = None
    /\ emitted' = FALSE

(***************************************************************************)
(* LiveTuner.__init__ and the module-level GUI set-up.                     *)
(***************************************************************************)
InitEngine ==
    /\ q = << >>
    /\ stream = "none"
    /\ running = FALSE
    /\ last_note = None
    /\ note_counter = 0
    /\ zi = sosfilt_zi(sos)
    /\ freq_history = << >>
    /\ status_text = NoReading
    /\ pending = 0
    /\ pc = "idle"
    /\ last = NoBlock
    /\ taken = 0
    /\ newest = NoBlock
    /\ outcome = "none"
    /\ zi_used = << >>
    /\ freq = NoValue
    /\ freq_smooth = NoValue
    /\ string = None
    /\ emitted = FALSE
    /\ first_block = TRUE
    /\ session_est = << >>
    /\ lastOp = "other"
    /\ call = "none"
    /\ dropped = 0
    /\ q_stale = 0
    /\ last_stale = FALSE

Init ==
    /\ InitEngine
    /\ fn_arg = NoBlock
    /\ fn_res = None

(***************************************************************************)
(* audio_callback, on the audio thread: a block is queued unless the       *)
(* stream reports a status flag.  It can run between any two steps of the  *)
(* consumer while the stream is active; poll does not read the queue after *)
(* its loop, so a push during the rest of poll is taken after its return.  *)
(***************************************************************************)
audio_callback ==
    /\ stream = "active"
    /\ pc # "done"
    /\ Len(q) < MaxQueue
    /\ Len(q) + taken <= MaxQueue
    /\ \E indata \in Blocks, status \in BOOLEAN :
          q' = IF status THEN q ELSE Append(q, indata)
    /\ call' = "none"
    /\ dropped' = 0
    /\ UNCHANGED <<stream, running, engine, status_text, pending, pc, last,
                   taken, newest, locals, first_block, session_est, lastOp,
                   q_stale, last_stale, pure>>

(***************************************************************************)
(* start(): res is what the audio library does: "ok", "open_error" (the    *)
(* device lookup or InputStream() raises, self.stream is not assigned) or  *)
(* "start_error" (stream.start() raises after self.stream was assigned).   *)
(***************************************************************************)
StartResults == {"ok", "open_error", "start_error"}

start_unguarded(res) ==
    /\ stream' = CASE res = "ok" -> "active"
                    [] res = "open_error" -> stream
                    [] res = "start_error" -> "created"
    /\ running' = (running \/ res = "ok")
    /\ first_block' = IF res = "ok" THEN TRUE ELSE first_block
    /\ session_est' = IF res = "ok" THEN << >> ELSE session_est
    /\ call' = IF running THEN "start_noop" ELSE res
    /\ dropped' = 0
    /\ UNCHANGED <<q, engine, q_stale>>

start_eager(res) ==
    /\ IF running THEN UNCHANGED <<stream, running, first_block, session_est>>
       ELSE /\ stream' = CASE res = "ok" -> "active"
                            [] res = "open_error" -> stream
                            [] res = "start_error" -> "created"
            /\ running' = TRUE
            /\ first_block' = IF res = "ok" THEN TRUE ELSE first_block
            /\ session_est' = IF res = "ok" THEN << >> ELSE session_est
    /\ call' = IF running THEN "start_noop" ELSE res
    /\ dropped' = 0
    /\ UNCHANGED <<q, engine, q_stale>>

start(res) ==
    /\ IF running THEN UNCHANGED <<stream, running, first_block, session_est>>
       ELSE /\ stream' = CASE res = "ok" -> "active"
                            [] res = "open_error" -> stream
                            [] res = "start_error" -> "created"
            /\ running' = (res = "ok")
            /\ first_block' = IF res = "ok" THEN TRUE ELSE first_block
            /\ session_est' = IF res = "ok" THEN << >> ELSE session_est
    /\ call' = IF running THEN "start_noop" ELSE res
    /\ dropped' = 0
    /\ UNCHANGED <<q, engine, q_stale>>

(***************************************************************************)
(* stop()                                                                  *)
(***************************************************************************)
stop_keep_queue ==
    /\ IF ~running THEN UNCHANGED <<stream, running, q, engine>>
       ELSE /\ stream' = "closed"
            /\ running' = FALSE
            /\ zi' = sosfilt_zi(sos)
            /\ freq_history' = << >>
            /\ UNCHANGED <<q, last_note, note_counter>>
    /\ call' = "stop"
    /\ dropped' = Len(q) - Len(q')
    /\ q_stale' = Len(q')

stop ==
    /\ IF ~running THEN UNCHANGED <<stream, running, q, engine>>
       ELSE /\ stream' = "closed"
            /\ running' = FALSE
            /\ q' = << >>
            /\ zi' = sosfilt_zi(sos)
            /\ freq_history' = << >>
            /\ UNCHANGED <<last_note, note_counter>>
    /\ call' = "stop"
    /\ dropped' = Len(q) - Len(q')
    /\ q_stale' = Len(q')

StartCall ==
    /\ pc = "idle"
    /\ \E res \in StartResults : start(res)
    /\ lastOp' = IF lastOp = "stop" THEN "restart" ELSE "start"
    /\ UNCHANGED <<status_text, pending, pc, last, taken, newest, locals,
                   last_stale, pure>>

StopCall ==
    /\ pc = "idle"
    /\ stop
    /\ lastOp' = "stop"
    /\ UNCHANGED <<status_text, pending, pc, last, taken, newest, locals, first_block,
                   session_est, last_stale, pure>>

(***************************************************************************)
(* toggle(), the button's command.                                         *)
(***************************************************************************)
toggle ==
    /\ pc = "idle"
    /\ IF running
       THEN /\ stop
            /\ status_text' = MicStopped
            /\ lastOp' = "stop"
            /\ UNCHANGED <<pending, first_block, session_est>>
       ELSE /\ pending < MaxPending
            /\ \E res \in StartResults : start(res)
            /\ pending' = pending + 1
            /\ lastOp' = IF lastOp = "stop" THEN "restart" ELSE "start"
            /\ UNCHANGED status_text
    /\ UNCHANGED <<pc, last, taken, newest, locals, last_stale, pure>>

(***************************************************************************)
(* poll(), on the GUI thread.  The drain loop is taken one q.get() at a    *)
(* time because the audio thread can push between two iterations; the rest *)
(* of the handler touches only state the GUI thread owns and is one step.  *)
(***************************************************************************)
\* lines 158-160: last = None, then the loop is entered
PollBegin ==
    /\ pc = "idle"
    /\ pending > 0
    /\ running => note_counter < MaxCount
    /\ pending' = pending - 1
    /\ pc' = "drain"
    /\ last' = NoBlock
    /\ taken' = 0
    /\ newest' = NoBlock
    /\ lastOp' = "other"
    /\ call' = "none"
    /\ dropped' = 0
    /\ UNCHANGED <<q, stream, running, engine, status_text, locals, first_block,
                   session_est, q_stale, last_stale, pure>>

\* line 160: last = self.q.get()
KeepFirst(cur, got) == IF cur = NoBlock THEN got ELSE cur

Keep(cur, got) == got

PollGet ==
    /\ pc = "drain"
    /\ q # << >>
    /\ last' = Keep(last, Head(q))
    /\ taken' = taken + 1
    /\ newest' = Head(q)
    /\ q' = Tail(q)
    /\ last_stale' = (q_stale > 0)
    /\ q_stale' = IF q_stale > 0 THEN q_stale - 1 ELSE 0
    /\ UNCHANGED <<stream, running, engine, status_text, pending, pc, locals,
                   first_block, session_est, lastOp, call, dropped, pure>>

RescheduleAlways == pending' = pending + 1

\* lines 166-167 and 223-224
Reschedule == pending' = IF running THEN pending + 1 ELSE pending

\* lines 162-224, once the loop has found the queue empty
PollEnd ==
    /\ pc = "drain"
    /\ q = << >>
    /\ pc' = "done"
    /\ UNCHANGED <<q, stream, running, last, taken, newest, lastOp, ghosts, pure>>
    /\ IF last = NoBlock
       THEN /\ outcome' = "empty"
            /\ Reschedule
            /\ UNCHANGED <<engine, status_text, zi_used, freq,
                           freq_smooth, string, emitted, first_block, session_est>>
       ELSE IF IsSilent(last)
       THEN /\ outcome' = "silent"
            /\ Reschedule
            /\ UNCHANGED <<engine, status_text, zi_used, freq,
                           freq_smooth, string, emitted, first_block, session_est>>
       ELSE \E fault \in BOOLEAN :
            LET arr == Normalise(last)
                zin == FilterInit(zi, arr)
                run == IF fault THEN sosfilt(sos, arr, ZeroState)
                       ELSE sosfilt(sos, arr, zin)
                zf == IF fault
                      THEN Scale(sosfilt_zi(sos), run.y[Len(run.y)])
                      ELSE run.zf
                det == detect_frequency_autocorr(run.y, fs)
            IN  /\ zi' = zf
                /\ zi_used' = IF fault THEN << >> ELSE zin
                /\ first_block' = FALSE
                /\ IF det.raised
                   THEN \* IndexError leaves poll at line 196
                        /\ outcome' = "IndexError"
                        /\ UNCHANGED <<freq_history, last_note, note_counter,
                                       status_text, pending, freq, freq_smooth,
                                       string, emitted, session_est>>
                   ELSE LET tr == TrackerUpdate(det.value, freq_history)
                            name == freq_to_string(tr.smooth)
                            st == StabilityStep(name, last_note, note_counter)
                        IN  /\ outcome' = "resolved"
                            /\ freq' = det.value
                            /\ freq_history' = tr.history
                            /\ freq_smooth' = tr.smooth
                            /\ string' = name
                            /\ last_note' = st.note
                            /\ note_counter' = st.count
                            /\ emitted' = Confirmed(st.count)
                            /\ status_text' = IF Confirmed(st.count)
                                              THEN Reading(name)
                                              ELSE status_text
                            /\ session_est' = IF det.value > 0
                                              THEN LastN(Append(session_est, det.value),
                                                         HistoryLen + 1)
                                              ELSE session_est
                            /\ Reschedule

\* poll returns: its locals are gone
PollReturn ==
    /\ pc = "done"
    /\ pc' = "idle"
    /\ last' = NoBlock
    /\ taken' = 0
    /\ newest' = NoBlock
    /\ BlankLocals
    /\ last_stale' = FALSE
    /\ UNCHANGED <<q, stream, running, engine, status_text, pending, first_block,
                   session_est, lastOp, call, dropped, q_stale, pure>>

Next ==
    \/ audio_callback
    \/ StartCall
    \/ StopCall
    \/ toggle
    \/ PollBegin
    \/ PollGet
    \/ PollEnd
    \/ PollReturn

Spec == Init /\ [][Next]_vars

(***************************************************************************)
(* The Tk main loop runs every callback scheduled with root.after, and a   *)
(* poll that has begun runs to its end: the steps of poll are weakly fair. *)
(* Nothing obliges the user to press the button or the audio source to     *)
(* deliver a block.  PollEndDue is the step PollEnd seen on pc alone:      *)
(* PollEnd is enabled exactly when the handler is in its loop and the      *)
(* queue is empty, and it is the only action that takes pc to "done".      *)
(***************************************************************************)
PollEndDue == pc = "drain" /\ q = << >> /\ pc' = "done"

SpecLive ==
    /\ Spec
    /\ WF_vars(PollBegin)
    /\ WF_vars(PollGet)
    /\ WF_pc(PollEndDue)
    /\ WF_vars(PollReturn)

(***************************************************************************)
(* detect_frequency_autocorr on its own, on every block of BlockLen        *)
(* samples between -MaxSample and MaxSample: the first block alternates    *)
(* in sign, the next one is made by shifting one new sample in.            *)
(***************************************************************************)
MaxSample == 2

Samples == (0 - MaxSample)..MaxSample

AlternatingBlocks ==
    {[i \in 1..BlockLen |-> IF i % 2 = 1 THEN v ELSE 0 - v] : v \in Samples \ {0}}

InitDetect ==
    /\ InitEngine
    /\ fn_arg \in AlternatingBlocks
    /\ fn_res = detect_frequency_autocorr(fn_arg, fs)

DetectApply ==
    /\ \E v \in Samples :
          LET x == Append(Tail(fn_arg), v)
          IN  /\ fn_arg' = x
              /\ fn_res' = detect_frequency_autocorr(x, fs)
    /\ UNCHANGED <<q, stream, running, engine, status_text, pending, pc, last,
                   taken, newest, locals, first_block, session_est, lastOp, ghosts>>

SpecDetect == InitDetect /\ [][DetectApply]_vars

(***************************************************************************)
(* freq_to_string on its own, on every frequency from 0 to MaxFreq         *)
(* hundredths of a hertz, in increasing order.                             *)
(***************************************************************************)
MaxFreq == 40000

InitNote ==
    /\ InitEngine
    /\ fn_arg = 0
    /\ fn_res = freq_to_string(fn_arg)

NoteApply ==
    /\ fn_arg < MaxFreq
    /\ fn_arg' = fn_arg + 1
    /\ fn_res' = freq_to_string(fn_arg + 1)
    /\ UNCHANGED <<q, stream, running, engine, status_text, pending, pc, last,
                   taken, newest, locals, first_block, session_est, lastOp, ghosts>>

SpecNote == InitNote /\ [][NoteApply]_vars

(***************************************************************************)
(* Properties.  PollEndStep is the step in which poll handles what its     *)
(* loop left in `last`; Processed says the poll that is about to return    *)
(* took a block past the amplitude gate.                                   *)
(***************************************************************************)
PollEndStep == pc = "drain" /\ pc' = "done"

Processed == pc = "done" /\ outcome \in {"resolved", "IndexError"}

FreshEngine ==
    /\ zi = sosfilt_zi(sos)
    /\ freq_history = << >>
    /\ last_note = None
    /\ note_counter = 0

\* C1: after stop() followed directly by start(), the filter state, the
\* frequency history, the stability candidate and the consecutive count are
\* those of a freshly constructed engine.
C1_RestartIsFresh == lastOp = "restart" => FreshEngine

\* C2: on a block whose note was resolved, the count goes up by one when the
\* name equals the tracked candidate and otherwise the candidate is replaced
\* and the count set to 1; a poll emits a reading exactly when it resolved a
\* note and the count after it is at least 3.
C2_StabilityGate ==
    [][PollEndStep =>
        /\ outcome' = "resolved" =>
              IF string' = last_note
              THEN last_note' = last_note /\ note_counter' = note_counter + 1
              ELSE last_note' = string' /\ note_counter' = 1
        /\ emitted' <=> (outcome' = "resolved" /\ note_counter' >= 3)]_vars

\* C2 witness: a reading of one note is on display, the next block resolved
\* to the other note, the count is back to 1 and nothing was emitted.
C2_Witness ==
    /\ pc = "done"
    /\ outcome = "resolved"
    /\ status_text.text = "reading"
    /\ status_text.string # string
    /\ note_counter = 1
    /\ ~emitted

\* C3: a poll of a block whose peak is below 0.02 leaves the filter state,
\* the frequency history, the candidate and the count as they were and emits
\* no reading.
C3_AmplitudeGate ==
    [][(PollEndStep /\ last # NoBlock /\ PeakAbs(last) < 2) =>
        /\ engine' = engine
        /\ status_text' = status_text
        /\ ~emitted']_vars

\* C3 witness: a silent block was polled while a history and a count of two
\* had been accumulated.
C3_Witness ==
    /\ pc = "done"
    /\ last # NoBlock
    /\ PeakAbs(last) < 2
    /\ Len(freq_history) >= 2
    /\ note_counter >= 2

\* C4: when a processed block has no positive pitch estimate, the smoothed
\* frequency used for it is the mean of the (unchanged) history, or 0 when
\* the history is empty.
C4_NoPitchUsesMean ==
    (Processed /\ freq <= 0) =>
        freq_smooth = IF freq_history = << >> THEN 0 ELSE np_mean(freq_history)

\* C5: after every processed block the history has at most 5 entries, all
\* positive, and is the last min(n, 5) positive estimates of the session in
\* arrival order; with a positive estimate the smoothed frequency is the
\* mean of that history.
C5_HistoryFifo ==
    /\ Len(freq_history) <= 5
    /\ \A i \in 1..Len(freq_history) : freq_history[i] > 0
    /\ Processed => freq_history = LastN(session_est, 5)
    /\ (Processed /\ freq > 0) =>
          /\ freq_history # << >>
          /\ freq_history[Len(freq_history)] = freq
          /\ freq_smooth = SumSeq(freq_history) \div Len(freq_history)

\* C5 witness: a sixth estimate has evicted the oldest one, which differed
\* from the one that is now the oldest.
C5_Witness ==
    /\ Processed
    /\ freq > 0
    /\ Len(session_est) = 6
    /\ Len(freq_history) = 5
    /\ session_est[1] # session_est[2]

\* C6: the state handed to the filter is the steady-state condition scaled
\* by the block's first sample for the first block of a session, and for
\* every other block exactly the state the previous block left.
C6_FilterContinuity ==
    [][(PollEndStep /\ zi_used' # << >>) =>
        zi_used' = IF first_block
                   THEN Scale(sosfilt_zi(sos), Normalise(last)[1])
                   ELSE zi]_vars

\* C7: the block a poll handles is the one it took out of the queue last;
\* a poll that took nothing out handles nothing and leaves the engine and
\* the display as they were.
C7_DrainToLatest ==
    [][PollEndStep =>
        /\ last = newest
        /\ (taken = 0) = (last = NoBlock)
        /\ (outcome' = "empty") = (taken = 0)
        /\ taken = 0 => engine' = engine /\ status_text' = status_text /\ ~emitted']_vars

\* C7 witness: a poll took two blocks out of the queue and processed the
\* one it took out last.
C7_Witness ==
    /\ pc = "done"
    /\ taken = 2
    /\ last = newest
    /\ outcome = "resolved"

\* C8: on a block whose autocorrelation has no lag with a positive first
\* difference the estimator returns 0 and does not fail; on every other
\* block it returns fs / peak_lag with peak_lag >= 1 the first lag holding
\* the maximum at or after the first lag with a positive difference.
C8_DetectTotal ==
    LET corr == Autocorr(fn_arg)
        d == Diff(corr)
        up == {k \in 0..(Len(d) - 1) : d[k + 1] > 0}
        from == CHOOSE k \in up : \A j \in up : k <= j
        IsPeak(k) == /\ \A j \in from..(Len(corr) - 1) : corr[j + 1] <= corr[k + 1]
                     /\ \A j \in from..(k - 1) : corr[j + 1] < corr[k + 1]
    IN  IF up = {}
        THEN fn_res = Returned(0)
        ELSE /\ ~fn_res.raised
             /\ \E k \in from..(Len(corr) - 1) :
                   /\ k >= 1
                   /\ IsPeak(k)
                   /\ fn_res.value = fs \div k

\* C9: whenever poll emits a reading, the estimate and the smoothed
\* frequency of that block are strictly positive.
C9_EmittedIsPositive ==
    (pc = "done" /\ emitted) => (freq > 0 /\ freq_smooth > 0)

\* C9 witness: a reading was emitted.
C9_Witness ==
    /\ pc = "done"
    /\ emitted
    /\ freq_smooth > 0
    /\ status_text = Reading(string)

\* C10: freq_to_string(f) is a note of the table at the least distance
\* |f - target| from f, and every note before it in table order is strictly
\* farther.
NoteIndex(name) == CHOOSE i \in 1..Len(StringNames) : StringNames[i] = name

C10_NearestNote ==
    LET dist(i) == Abs(fn_arg - STRINGS[StringNames[i]])
        r == NoteIndex(fn_res)
    IN  /\ \A i \in 1..Len(StringNames) : dist(r) <= dist(i)
        /\ \A i \in 1..(r - 1) : dist(i) > dist(r)

\* C10 witness: 221.47 Hz is as far from G as from B and resolves to G.
C10_Witness ==
    /\ fn_arg = 22147
    /\ Abs(fn_arg - STRINGS["G"]) = Abs(fn_arg - STRINGS["B"])
    /\ fn_res = "G"

\* C11: while the session is running, every poll - on an empty queue, a
\* silent block, a block without pitch, a block on which the filter fails or
\* a pitched block - ends without a failure that leaves the handler and
\* schedules the next poll.
C11_PollKeepsPolling ==
    [][(PollEndStep /\ running) =>
        /\ outcome' # "IndexError"
        /\ pending' = pending + 1]_vars

(***************************************************************************)
(* Lifecycle calls.  FailedStartStep is a start() on a stopped engine in   *)
(* which the audio library raised, from start() itself or from toggle().   *)
(***************************************************************************)
StartFailures == {"open_error", "start_error"}

FailedStartStep == pc = "idle" /\ ~running /\ call' \in StartFailures

\* C12: when opening or starting the stream fails inside start(), the call
\* returns with running still false and with the queue, the filter state,
\* the frequency history, the candidate and the count as they were.
C12_FailedStart ==
    [][FailedStartStep =>
        /\ running' = FALSE
        /\ q' = q
        /\ engine' = engine]_vars

\* C12 witness: stream.start() has just failed on an engine that had
\* tracked a note in an earlier session.
C12_Witness ==
    /\ call = "start_error"
    /\ ~running
    /\ stream = "created"
    /\ last_note # None
    /\ note_counter >= 1

\* C13: a block that was pushed before a stop() is never the block a poll
\* handles after that stop(); and the stop() of a running session leaves the
\* queue empty, the frequency history empty and the filter state at the
\* steady-state condition.
C13_NoStaleAudio ==
    [][/\ (PollEndStep /\ last # NoBlock) => ~last_stale
       /\ (running /\ ~running') =>
             /\ q' = << >>
             /\ q_stale' = 0
             /\ freq_history' = << >>
             /\ zi' = sosfilt_zi(sos)]_vars

\* C13 witness: stop() has just removed a waiting block from the queue of a
\* session that had tracked a note.
C13_Witness ==
    /\ call = "stop"
    /\ dropped > 0
    /\ ~running
    /\ q = << >>
    /\ freq_history = << >>
    /\ zi = sosfilt_zi(sos)
    /\ last_note # None

\* C14: after stop() has returned, and after a start() in which the audio
\* library failed, the engine holds no stream: self.stream is none, and no
\* stream it opened is left open.
C14_NoDanglingStream ==
    (call = "stop" \/ call \in StartFailures) => stream = "none"

\* C15: whenever a poll finds a block whose peak is below 0.02, the display
\* shows the "no signal" state when that poll is over, not the text it
\* showed before.
C15_SilenceShowsNoSignal ==
    (pc = "done" /\ outcome = "silent") => status_text = NoReading

\* FaultStep: the poll handles a block that passed the gate and its stateful
\* sosfilt call raised
FaultStep ==
    /\ PollEndStep
    /\ last # NoBlock
    /\ ~IsSilent(last)
    /\ zi_used' = << >>

\* C16: when the stateful filter call fails on a block that passed the gate,
\* the block is filtered from a zero state, the filter state becomes the
\* steady-state condition scaled by the last sample of that output, and the
\* estimate, the tracker update and the stability check are still done for
\* the block, with nothing raised out of poll.
C16_FilterFallback ==
    [][FaultStep =>
        LET y == sosfilt(sos, Normalise(last), ZeroState).y
            det == detect_frequency_autocorr(y, fs)
            tr == TrackerUpdate(det.value, freq_history)
            st == StabilityStep(freq_to_string(tr.smooth), last_note, note_counter)
        IN  /\ zi' = Scale(sosfilt_zi(sos), y[Len(y)])
            /\ outcome' = "resolved"
            /\ freq' = det.value
            /\ freq_history' = tr.history
            /\ last_note' = st.note
            /\ note_counter' = st.count]_vars

\* C17: whatever toggles and polls have run, at most one poll callback is
\* scheduled at any time.
C17_SinglePollChain == pending <= 1

\* Stopped: the engine is stopped and the latest lifecycle call was not a
\* start()
Stopped == ~running /\ lastOp \notin {"start", "restart"}

\* C18: a poll that runs while the engine is stopped takes one callback off
\* the schedule and puts none on it; and once the engine is stopped with no
\* start() following, eventually no poll is pending, for good.
C18_PollingStops ==
    /\ [][(pc # "idle" /\ ~running) => pending' = pending]_vars
    /\ [][(pc = "idle" /\ pc' = "drain") => pending' = pending - 1]_vars
    /\ (<>[]Stopped) => <>[](pending = 0 /\ pc = "idle")

\* C18 witness: the poll that was pending when stop() was called has run on
\* the stopped engine and left nothing scheduled.
C18_Witness ==
    /\ pc = "done"
    /\ ~running
    /\ stream = "closed"
    /\ lastOp = "other"
    /\ outcome = "empty"
    /\ pending = 0

\* NoopStartStep: start() is called on a running engine; NoopStopStep:
\* stop() is called on a stopped one
NoopStartStep == pc = "idle" /\ running /\ call' = "start_noop"

NoopStopStep == pc = "idle" /\ ~running /\ call' = "stop"

\* C19: start() on a running engine and stop() on a stopped engine leave
\* the stream, the running flag, the queue, the filter state, the frequency
\* history, the candidate and the count as they were.
C19_IdempotentLifecycle ==
    [][(NoopStartStep \/ NoopStopStep) =>
        /\ stream' = stream
        /\ running' = running
        /\ q' = q
        /\ engine' = engine]_vars

\* C19 witness: start() has just been called on a running engine that had
\* a block waiting, a history and a candidate.
C19_Witness ==
    /\ call = "start_noop"
    /\ running
    /\ stream = "active"
    /\ q # << >>
    /\ freq_history # << >>
    /\ note_counter >= 1

====
